---- MODULE Spec2Model ----
(***************************************************************************)
(* A model of devtools/pep8/pep8.py (version 0.2.0): the Checker that      *)
(* tokenizes a file, runs the physical-line checks on every line read,     *)
(* builds a logical line at every NEWLINE token seen at bracket depth 0,   *)
(* runs the logical-line checks on it and reports through report_error.    *)
(*                                                                         *)
(* Text is a sequence of one-character strings.  A physical line ends in   *)
(* its newline character, as the elements of file.readlines() do.          *)
(* Columns and offsets are 0-based as in the Python source; row numbers    *)
(* are 1-based.                                                            *)
(***************************************************************************)
EXTENDS Integers, Sequences, FiniteSets, TLC

\* ------------------------------------------------------------------------
\* Python string primitives
\* ------------------------------------------------------------------------

Max(a, b) == IF a >= b THEN a ELSE b

Min(a, b) == IF a <= b THEN a ELSE b

\* The characters str.strip / rstrip / lstrip remove by default.
WS == {" ", "\t", "\n"}

\* A Python slice bound: negative counts from the end, all clamped to 0..n.
Norm(i, n) == IF i < 0 THEN Max(n + i, 0) ELSE Min(i, n)

\* s[a:b]
Slice(s, a, b) == SubSeq(s, Norm(a, Len(s)) + 1, Norm(b, Len(s)))

\* s[a:]
SliceFrom(s, a) == SubSeq(s, Norm(a, Len(s)) + 1, Len(s))

\* s[c] for a column c known to be in range; "" past the end.
At(s, c) == IF c >= 0 /\ c < Len(s) THEN s[c + 1] ELSE ""

\* The least and the greatest element of a non-empty set of numbers.
Least(S) == CHOOSE i \in S : \A j \in S : i <= j

Greatest(S) == CHOOSE i \in S : \A j \in S : i >= j

\* s.rstrip(chars): s up to its last character that is not in chars.
RStripSet(s, chars) ==
    LET keep == {i \in 1..Len(s) : s[i] \notin chars}
    IN  IF keep = {} THEN <<>> ELSE SubSeq(s, 1, Greatest(keep))

\* s.lstrip(chars): s from its first character that is not in chars.
LStripSet(s, chars) ==
    LET keep == {i \in 1..Len(s) : s[i] \notin chars}
    IN  IF keep = {} THEN <<>> ELSE SubSeq(s, Least(keep), Len(s))

RStrip(s) == RStripSet(s, WS)

LStrip(s) == LStripSet(s, WS)

StartsWith(s, p) == Len(s) >= Len(p) /\ SubSeq(s, 1, Len(p)) = p

EndsWith(s, p) == Len(s) >= Len(p) /\ SubSeq(s, Len(s) - Len(p) + 1, Len(s)) = p

\* 'x' * n (the empty string for n <= 0)
Fill(n) == [i \in 1..Max(n, 0) |-> "x"]

\* ------------------------------------------------------------------------
\* The tokenizer (tokenize.generate_tokens of the Python 2 library), over
\* the characters the modelled files use: blanks, tabs, newlines, letters,
\* brackets, ',', ':', '=', '#', '"' and the backslash.
\* A token is [type, string, start, end]; its fifth field, the physical
\* line, is never read by pep8.py.
\* ------------------------------------------------------------------------

NameChars ==
    {"a", "b", "c", "d", "e", "f", "g", "h", "i", "j", "k", "l", "m",
     "n", "o", "p", "q", "r", "s", "t", "u", "v", "w", "x", "y", "z"}

OpenBrackets == {"(", "[", "{"}

CloseBrackets == {")", "]", "}"}

OtherOps == {",", ":", "="}

Tok(type, string, start, end) ==
    [type |-> type, string |-> string, start |-> start, end |-> end]

\* The tokenizer's variables between two lines.
TokInit ==
    [parenlev |-> 0, continued |-> FALSE, indents |-> <<0>>,
     contstr |-> <<>>, needcont |-> FALSE, triple |-> FALSE,
     strstart |-> <<0, 0>>]

\* Column after the run of blanks and tabs starting at column pos.
SkipBlanks(line, pos) ==
    Least({e \in pos..Max(pos, Len(line)) : At(line, e) \notin {" ", "\t"}})

\* Column after the name starting at column pos.
NameEnd(line, pos) ==
    Least({e \in pos..Max(pos, Len(line)) : At(line, e) \notin NameChars})

\* Column after the comment starting at column pos: the newline ends it.
CommentEnd(line, pos) ==
    Least({e \in pos..Max(pos, Len(line)) : At(line, e) \in {"\n", ""}})

\* The end of a "..." literal whose body starts at column i.  With nl
\* FALSE it is the first line of the literal (a newline cannot be part of
\* the body); with nl TRUE it is a continuation line matched by the end
\* pattern, which takes newlines.  "closed": end is the column after the
\* closing quote.  "cont": the line ends in backslash-newline, end is the
\* column after the newline.  "fail": neither.
RECURSIVE StrEnd(_, _, _)
StrEnd(line, i, nl) ==
    IF i >= Len(line) THEN [kind |-> "fail", end |-> i]
    ELSE IF At(line, i) = "\"" THEN [kind |-> "closed", end |-> i + 1]
    ELSE IF At(line, i) = "\\"
         THEN IF At(line, i + 1) = "\n"
              THEN IF nl THEN [kind |-> "fail", end |-> i]
                   ELSE [kind |-> "cont", end |-> i + 2]
              ELSE IF i + 1 < Len(line) THEN StrEnd(line, i + 2, nl)
              ELSE [kind |-> "fail", end |-> i]
    ELSE IF At(line, i) = "\n" /\ ~nl THEN [kind |-> "fail", end |-> i]
    ELSE StrEnd(line, i + 1, nl)

\* The end of a """...""" literal whose body starts (or goes on) at column
\* i: the column after the closing quotes, or -1 when this line has none.
RECURSIVE TripleEnd(_, _)
TripleEnd(line, i) ==
    IF i >= Len(line) THEN -1
    ELSE IF At(line, i) = "\""
         THEN IF At(line, i + 1) = "\"" /\ At(line, i + 2) = "\""
              THEN i + 3
              ELSE TripleEnd(line, i + 1)
    ELSE IF At(line, i) = "\\"
         THEN IF i + 1 < Len(line) /\ At(line, i + 1) # "\n"
              THEN TripleEnd(line, i + 2)
              ELSE -1
    ELSE TripleEnd(line, i + 1)

\* Length of the string prefix at column c (only r is modelled), given
\* that a quote follows it.
PrefixLen(line, c) ==
    IF At(line, c) = "r" /\ At(line, c + 1) = "\"" THEN 1 ELSE 0

IsTripleAt(line, c) ==
    LET q == c + PrefixLen(line, c)
    IN  At(line, q) = "\"" /\ At(line, q + 1) = "\"" /\ At(line, q + 2) = "\""

IsQuoteAt(line, c) == At(line, c + PrefixLen(line, c)) = "\""

\* The tokens of the rest of a line from column pos on: the loop
\* "while pos < max" of generate_tokens.  st is the tokenizer's variables,
\* acc the tokens yielded so far for this line.
RECURSIVE ScanLine(_, _, _, _, _)
ScanLine(line, lnum, pos, st, acc) ==
    IF pos >= Len(line) THEN [toks |-> acc, st |-> st]
    ELSE
    LET start == SkipBlanks(line, pos)
        c == At(line, start)
        err == ScanLine(line, lnum, pos + 1, st,
                 Append(acc, Tok("ERRORTOKEN", <<At(line, pos)>>,
                                 <<lnum, pos>>, <<lnum, pos + 1>>)))
    IN
    IF c = "\\" /\ At(line, start + 1) = "\n"
    THEN ScanLine(line, lnum, start + 2, [st EXCEPT !.continued = TRUE], acc)
    ELSE IF c = "#"
    THEN LET e == CommentEnd(line, start)
         IN  ScanLine(line, lnum, e, st,
               Append(acc, Tok("COMMENT", Slice(line, start, e),
                               <<lnum, start>>, <<lnum, e>>)))
    ELSE IF IsTripleAt(line, start)
    THEN LET body == start + PrefixLen(line, start) + 3
             e == TripleEnd(line, body)
         IN  IF e >= 0
             THEN ScanLine(line, lnum, e, st,
                    Append(acc, Tok("STRING", Slice(line, start, e),
                                    <<lnum, start>>, <<lnum, e>>)))
             ELSE [toks |-> acc,
                   st |-> [st EXCEPT !.contstr = SliceFrom(line, start),
                                     !.strstart = <<lnum, start>>,
                                     !.needcont = FALSE,
                                     !.triple = TRUE]]
    ELSE IF c = "\n"
    THEN ScanLine(line, lnum, start + 1, st,
           Append(acc, Tok(IF st.parenlev > 0 THEN "NL" ELSE "NEWLINE",
                           <<"\n">>, <<lnum, start>>, <<lnum, start + 1>>)))
    ELSE IF c = "=" /\ At(line, start + 1) = "="
    THEN ScanLine(line, lnum, start + 2, st,
           Append(acc, Tok("OP", <<"=", "=">>,
                           <<lnum, start>>, <<lnum, start + 2>>)))
    ELSE IF c \in OpenBrackets \cup CloseBrackets \cup OtherOps
    THEN ScanLine(line, lnum, start + 1,
           [st EXCEPT !.parenlev =
               IF c \in OpenBrackets THEN @ + 1
               ELSE IF c \in CloseBrackets THEN @ - 1 ELSE @],
           Append(acc, Tok("OP", <<c>>, <<lnum, start>>, <<lnum, start + 1>>)))
    ELSE IF IsQuoteAt(line, start)
            /\ StrEnd(line, start + PrefixLen(line, start) + 1, FALSE).kind
                 # "fail"
    THEN LET r == StrEnd(line, start + PrefixLen(line, start) + 1, FALSE)
         IN  IF r.kind = "cont"
             THEN [toks |-> acc,
                   st |-> [st EXCEPT !.contstr = SliceFrom(line, start),
                                     !.strstart = <<lnum, start>>,
                                     !.needcont = TRUE,
                                     !.triple = FALSE]]
             ELSE ScanLine(line, lnum, r.end, st,
                    Append(acc, Tok("STRING", Slice(line, start, r.end),
                                    <<lnum, start>>, <<lnum, r.end>>)))
    ELSE IF c \in NameChars
    THEN LET e == NameEnd(line, start)
         IN  ScanLine(line, lnum, e, st,
               Append(acc, Tok("NAME", Slice(line, start, e),
                               <<lnum, start>>, <<lnum, e>>)))
    ELSE err

\* The width of the leading blanks of a new statement's line as the
\* tokenizer measures it (a tab goes to the next multiple of 8), from
\* column pos with the width col reached so far.
RECURSIVE MeasureIndent(_, _, _)
MeasureIndent(line, pos, col) ==
    IF At(line, pos) = " " THEN MeasureIndent(line, pos + 1, col + 1)
    ELSE IF At(line, pos) = "\t"
         THEN MeasureIndent(line, pos + 1, ((col \div 8) + 1) * 8)
    ELSE [pos |-> pos, column |-> col]

\* The indentation stack after the DEDENTs down to column.
RECURSIVE PopIndents(_, _)
PopIndents(indents, column) ==
    IF column < indents[Len(indents)]
    THEN PopIndents(SubSeq(indents, 1, Len(indents) - 1), column)
    ELSE indents

\* What generate_tokens does with the line it has just read: one round of
\* its "while 1" loop.  line is <<>> at the end of the input.  The result
\* is the tokens yielded, the tokenizer's variables afterwards, and
\*   status "more":  the generator goes on to read the next line,
\*          "end":   it has yielded ENDMARKER and is exhausted,
\*          "error": it has raised (TokenError or IndentationError).
TokenizeLine(line, lnum, st) ==
    IF st.contstr # <<>>
    THEN \* inside a string literal that began on an earlier line
         IF line = <<>>
         THEN [toks |-> <<>>, st |-> st, status |-> "error"]
         ELSE LET e == IF st.triple THEN TripleEnd(line, 0)
                       ELSE LET r == StrEnd(line, 0, TRUE)
                            IN  IF r.kind = "closed" THEN r.end ELSE -1
                  clear == [st EXCEPT !.contstr = <<>>, !.needcont = FALSE]
              IN  IF e >= 0
                  THEN LET r == ScanLine(line, lnum, e, clear,
                                  <<Tok("STRING", st.contstr \o Slice(line, 0, e),
                                        st.strstart, <<lnum, e>>)>>)
                       IN  [toks |-> r.toks, st |-> r.st, status |-> "more"]
                  ELSE IF st.needcont /\ ~EndsWith(line, <<"\\", "\n">>)
                  THEN [toks |-> <<Tok("ERRORTOKEN", st.contstr \o line,
                                       st.strstart, <<lnum, Len(line)>>)>>,
                        st |-> [st EXCEPT !.contstr = <<>>],
                        status |-> "more"]
                  ELSE [toks |-> <<>>,
                        st |-> [st EXCEPT !.contstr = @ \o line],
                        status |-> "more"]
    ELSE IF st.parenlev = 0 /\ ~st.continued
    THEN \* a new statement
         LET m == MeasureIndent(line, 0, 0)
             atEnd == [toks |-> [i \in 1..(Len(st.indents) - 1) |->
                                   Tok("DEDENT", <<>>, <<lnum, 0>>, <<lnum, 0>>)]
                                \o <<Tok("ENDMARKER", <<>>, <<lnum, 0>>, <<lnum, 0>>)>>,
                       st |-> st, status |-> "end"]
         IN  IF line = <<>> \/ m.pos = Len(line) THEN atEnd
             ELSE IF At(line, m.pos) \in {"#", "\n"}
             THEN \* a comment-only or blank line: one token to the line's end
                  [toks |-> <<Tok(IF At(line, m.pos) = "#" THEN "COMMENT" ELSE "NL",
                                  SliceFrom(line, m.pos),
                                  <<lnum, m.pos>>, <<lnum, Len(line)>>)>>,
                   st |-> st, status |-> "more"]
             ELSE IF m.column < st.indents[Len(st.indents)]
                     /\ \A i \in 1..Len(st.indents) : st.indents[i] # m.column
             THEN \* unindent does not match any outer indentation level
                  [toks |-> <<>>, st |-> st, status |-> "error"]
             ELSE LET top == st.indents[Len(st.indents)]
                      ind == IF m.column > top
                             THEN <<Tok("INDENT", Slice(line, 0, m.pos),
                                        <<lnum, 0>>, <<lnum, m.pos>>)>>
                             ELSE <<>>
                      popped == PopIndents(st.indents, m.column)
                      ded == [i \in 1..(Len(st.indents) - Len(popped)) |->
                                Tok("DEDENT", <<>>, <<lnum, m.pos>>, <<lnum, m.pos>>)]
                      st1 == [st EXCEPT !.indents =
                                IF m.column > top THEN Append(@, m.column)
                                ELSE popped]
                      r == ScanLine(line, lnum, m.pos, st1, ind \o ded)
                  IN  [toks |-> r.toks, st |-> r.st, status |-> "more"]
    ELSE \* a continued statement
         IF line = <<>>
         THEN [toks |-> <<>>, st |-> st, status |-> "error"]
         ELSE LET r == ScanLine(line, lnum, 0, [st EXCEPT !.continued = FALSE], <<>>)
              IN  [toks |-> r.toks, st |-> r.st, status |-> "more"]

\* ------------------------------------------------------------------------
\* More string primitives, used by the checks
\* ------------------------------------------------------------------------

\* s.find(sub, from): the least column >= from at which sub occurs, or -1.
Find(s, sub, from) ==
    LET hits == {i \in from..(Len(s) - Len(sub)) :
                   SubSeq(s, i + 1, i + Len(sub)) = sub}
    IN  IF hits = {} THEN -1 ELSE Least(hits)

\* sub in s
Contains(s, sub) == Find(s, sub, 0) > -1

\* s[i] with Python's negative indices.
Index(s, i) == IF i < 0 THEN At(s, Len(s) + i) ELSE At(s, i)

\* The leading run of blanks and tabs: indent_match(line).group(1).
indent_match(line) == Slice(line, 0, SkipBlanks(line, 0))

\* The module-level list "operators", in its order.
operators ==
    <<<<"+">>, <<"-">>, <<"*">>, <<"/">>, <<"%">>, <<"^">>, <<"&">>,
      <<"|">>, <<"=">>, <<"<">>, <<">">>, <<">", ">">>, <<"<", "<">>,
      <<"+", "=">>, <<"-", "=">>, <<"*", "=">>, <<"/", "=">>,
      <<"%", "=">>, <<"^", "=">>, <<"&", "=">>, <<"|", "=">>,
      <<"=", "=">>, <<"<", "=">>, <<">", "=">>, <<">", ">", "=">>,
      <<"<", "<", "=">>, <<"!", "=">>, <<"<", ">">>, <<":">>,
      <<"i", "n">>, <<"i", "s">>, <<"o", "r">>, <<"n", "o", "t">>,
      <<"a", "n", "d">>>>

\* keyword.kwlist of the Python 2 library.
Keywords ==
    {<<"a", "n", "d">>, <<"a", "s", "s", "e", "r", "t">>,
     <<"b", "r", "e", "a", "k">>, <<"c", "l", "a", "s", "s">>,
     <<"c", "o", "n", "t", "i", "n", "u", "e">>, <<"d", "e", "f">>,
     <<"d", "e", "l">>, <<"e", "l", "i", "f">>, <<"e", "l", "s", "e">>,
     <<"e", "x", "c", "e", "p", "t">>, <<"e", "x", "e", "c">>,
     <<"f", "i", "n", "a", "l", "l", "y">>, <<"f", "o", "r">>,
     <<"f", "r", "o", "m">>, <<"g", "l", "o", "b", "a", "l">>,
     <<"i", "f">>, <<"i", "m", "p", "o", "r", "t">>, <<"i", "n">>,
     <<"i", "s">>, <<"l", "a", "m", "b", "d", "a">>, <<"n", "o", "t">>,
     <<"o", "r">>, <<"p", "a", "s", "s">>, <<"p", "r", "i", "n", "t">>,
     <<"r", "a", "i", "s", "e">>, <<"r", "e", "t", "u", "r", "n">>,
     <<"t", "r", "y">>, <<"w", "h", "i", "l", "e">>,
     <<"y", "i", "e", "l", "d">>}

iskeyword(w) == w \in Keywords

InOperators(w) == \E i \in 1..Len(operators) : operators[i] = w

\* Column at which the run of word characters ending before column e starts.
WordStart(s, e) ==
    Greatest({b \in 0..e : b = 0 \/ At(s, b - 1) \notin NameChars})

\* last_token_match(s).group(1) for the pattern (\w+|\S)\s*$ : the last
\* word of s, or its last character when that is not a word character.
\* <<>> stands for no match (s is empty or blank).
last_token_match(s) ==
    LET t == RStrip(s)
    IN  IF t = <<>> THEN <<>>
        ELSE IF t[Len(t)] \in NameChars
             THEN SliceFrom(t, WordStart(t, Len(t)))
        ELSE <<t[Len(t)]>>

\* ------------------------------------------------------------------------
\* Check results and messages.
\* A check returns None or (offset, text).  A text is a sequence of
\* pieces whose concatenation is the Python string: the four characters
\* of the code first, the digits of every %d, the pieces "(", ")" and " "
\* for those characters where report_error looks for them, other wording
\* whole.
\* ------------------------------------------------------------------------

None == <<>>

\* "%d" % n, for the numbers the modelled checks report (n < 1000).
RECURSIVE Digits(_)
Digits(n) ==
    LET digit == <<"0", "1", "2", "3", "4", "5", "6", "7", "8", "9">>
    IN  IF n < 10 THEN <<digit[n + 1]>>
        ELSE Digits(n \div 10) \o <<digit[(n % 10) + 1]>>

Result(offset, text) == <<offset, text>>

\* The state dict of a Checker: keys holds the keys that are set.
EmptyState ==
    [keys |-> {}, indent_char |-> " ", indent_level |-> 0,
     indent_expect |-> FALSE, blank_lines |-> 0]

\* state.get(key, default)
Get(state, key, default) == IF key \in state.keys THEN state[key] ELSE default

\* state[key] = value
Put(state, key, value) ==
    [[state EXCEPT ![key] = value] EXCEPT !.keys = @ \cup {key}]

\* ------------------------------------------------------------------------
\* Checks for physical lines.  Each takes the Checker (its attributes) and
\* gives [result, state]: what it returns and the state dict afterwards.
\* ------------------------------------------------------------------------

\* Column of the first character of indent that is not ch, or -1.
FirstOther(indent, ch, i) ==
    LET others == {k \in i..(Len(indent) - 1) : At(indent, k) # ch}
    IN  IF others = {} THEN -1 ELSE Least(others)

tabs_or_spaces(self) ==
    LET indent == indent_match(self.physical_line)
        known == "indent_char" \in self.state.keys
        indent_char == IF known THEN self.state.indent_char ELSE indent[1]
        state1 == IF known THEN self.state
                  ELSE Put(self.state, "indent_char", indent_char)
        offset == FirstOther(indent, indent_char, 0)
    IN  IF indent = <<>> THEN [result |-> None, state |-> self.state]
        ELSE IF offset > -1
        THEN [result |-> Result(offset,
                 <<"E", "1", "0", "1", " ", "indentation contains mixed spaces and tabs">>),
              state |-> state1]
        ELSE [result |-> None, state |-> state1]

tabs_obsolete(self) ==
    LET indent == indent_match(self.physical_line)
    IN  IF Contains(indent, <<"\t">>)
        THEN [result |-> Result(Find(indent, <<"\t">>, 0),
                 <<"W", "1", "9", "1", " ", "indentation contains tabs">>),
              state |-> self.state]
        ELSE [result |-> None, state |-> self.state]

trailing_whitespace(self) ==
    LET physical_line == RStripSet(self.physical_line, {"\n"})
        stripped == RStrip(physical_line)
    IN  IF physical_line # stripped
        THEN [result |-> Result(Len(stripped),
                 <<"W", "2", "9", "1", " ", "trailing whitespace">>),
              state |-> self.state]
        ELSE [result |-> None, state |-> self.state]

\* The limit of maximum_line_length.
MaxLineLength == 79

maximum_line_length(self) ==
    LET length == Len(RStrip(self.physical_line))
    IN  IF length > MaxLineLength
        THEN [result |-> Result(MaxLineLength,
                 <<"E", "5", "0", "1", " ", "line too long", " ", "(">>
                 \o Digits(length) \o <<" characters", ")">>),
              state |-> self.state]
        ELSE [result |-> None, state |-> self.state]

\* ------------------------------------------------------------------------
\* Checks for logical lines
\* ------------------------------------------------------------------------

indentation(self) ==
    LET line == self.logical_line
        previous_level == Get(self.state, "indent_level", 0)
        indent_expect == Get(self.state, "indent_expect", FALSE)
        state1 == Put(self.state, "indent_expect",
                      EndsWith(RStrip(RStripSet(line, {"#"})), <<":">>))
        indent_char == Get(state1, "indent_char", " ")
        state2 == Put(state1, "indent_level", self.indent_level)
    IN  IF line = <<>> THEN [result |-> None, state |-> self.state]
        ELSE IF indent_char = " " /\ self.indent_level % 4 # 0
        THEN [result |-> Result(0,
                 <<"E", "1", "1", "1", " ", "indentation is not a multiple of four">>),
              state |-> state2]
        ELSE IF indent_expect /\ self.indent_level <= previous_level
        THEN [result |-> Result(0,
                 <<"E", "1", "1", "2", " ", "expected an indented block">>),
              state |-> state2]
        ELSE IF ~indent_expect /\ self.indent_level > previous_level
        THEN [result |-> Result(0, <<"E", "1", "1", "3", " ", "unexpected indentation">>),
              state |-> state2]
        ELSE [result |-> None, state |-> state2]

blank_lines(self) ==
    LET line == self.logical_line
        first_line == "blank_lines" \notin self.state.keys
        count == Get(self.state, "blank_lines", 0)
        state1 == IF line = <<>>
                  THEN Put(self.state, "blank_lines", count + 1)
                  ELSE Put(self.state, "blank_lines", 0)
        isdef == StartsWith(line, <<"d", "e", "f", " ">>) /\ ~first_line
    IN  IF isdef /\ self.indent_level > 0 /\ count # 1
        THEN [result |-> Result(0,
                 <<"E", "3", "0", "1", " ", "expected 1 blank line, found", " ">>
                 \o Digits(count)),
              state |-> state1]
        ELSE IF isdef /\ self.indent_level = 0 /\ count # 2
        THEN [result |-> Result(0,
                 <<"E", "3", "0", "2", " ", "expected 2 blank lines, found", " ">>
                 \o Digits(count)),
              state |-> state1]
        ELSE IF count > 2
        THEN [result |-> Result(0,
                 <<"E", "3", "0", "3", " ", "too many blank lines", " ", "(">>
                 \o Digits(count) \o <<")">>),
              state |-> state1]
        ELSE [result |-> None, state |-> state1]

\* The first character c of chars (in order) for which line holds the
\* pair made with c, with the column of that pair: <<c, found>>, or
\* <<>> when there is none.  before: the pair is ' ' + c, else c + ' '.
\* skipComma: the extra condition of E202, line[found - 1] != ','.
RECURSIVE FirstPair(_, _, _, _)
FirstPair(line, chars, before, skipComma) ==
    IF chars = <<>> THEN <<>>
    ELSE LET char == Head(chars)
             found == Find(line, IF before THEN <<" ", char>> ELSE <<char, " ">>, 0)
         IN  IF found > -1 /\ (~skipComma \/ Index(line, found - 1) # ",")
             THEN <<char, found>>
             ELSE FirstPair(line, Tail(chars), before, skipComma)

extraneous_whitespace(self) ==
    LET line == self.logical_line
        after == FirstPair(line, <<"(", "[", "{">>, FALSE, FALSE)
        closing == FirstPair(line, <<"}", "]", ")">>, TRUE, TRUE)
        punct == FirstPair(line, <<",", ";", ":">>, TRUE, FALSE)
    IN  IF after # <<>>
        THEN [result |-> Result(after[2] + 1,
                 <<"E", "2", "0", "1", " ", "whitespace after '", after[1], "'">>),
              state |-> self.state]
        ELSE IF closing # <<>>
        THEN [result |-> Result(closing[2],
                 <<"E", "2", "0", "2", " ", "whitespace before '", closing[1], "'">>),
              state |-> self.state]
        ELSE IF punct # <<>>
        THEN [result |-> Result(punct[2],
                 <<"E", "2", "0", "3", " ", "whitespace before '", punct[1], "'">>),
              state |-> self.state]
        ELSE [result |-> None, state |-> self.state]

\* The inner "while True" of whitespace_before_parameters for one char:
\* the column of the first ' ' + char, from column from on, that no
\* exemption skips, or -1.
RECURSIVE ParamScan(_, _, _)
ParamScan(line, char, from) ==
    LET found == Find(line, <<" ", char>>, from)
        before == last_token_match(Slice(line, 0, found))
    IN  IF found = -1 THEN -1
        ELSE IF InOperators(before) \/ before = <<",">> \/ iskeyword(before)
                \/ StartsWith(line, <<"c", "l", "a", "s", "s">>)
        THEN ParamScan(line, char, found + 1)
        ELSE found

whitespace_before_parameters(self) ==
    LET line == self.logical_line
        paren == ParamScan(line, "(", 0)
        bracket == ParamScan(line, "[", 0)
    IN  IF paren > -1
        THEN [result |-> Result(paren,
                 <<"E", "2", "1", "1", " ", "whitespace before '", "(", "'">>),
              state |-> self.state]
        ELSE IF bracket > -1
        THEN [result |-> Result(bracket,
                 <<"E", "2", "1", "1", " ", "whitespace before '", "[", "'">>),
              state |-> self.state]
        ELSE [result |-> None, state |-> self.state]

\* The loop of whitespace_around_operator from the i-th operator on.
RECURSIVE OperatorScan(_, _)
OperatorScan(line, i) ==
    IF i > Len(operators) THEN None
    ELSE LET spaces == Find(line, <<" ", " ">> \o operators[i], 0)
             tab == Find(line, <<"\t">> \o operators[i], 0)
         IN  IF spaces > -1
             THEN Result(spaces,
                    <<"E", "2", "2", "1", " ", "multiple spaces before operator">>)
             ELSE IF tab > -1
             THEN Result(tab, <<"E", "2", "2", "2", " ", "tab before operator">>)
             ELSE OperatorScan(line, i + 1)

whitespace_around_operator(self) ==
    [result |-> OperatorScan(self.logical_line, 1), state |-> self.state]

imports_on_separate_lines(self) ==
    LET line == self.logical_line
        found == Find(line, <<",">>, 0)
    IN  IF StartsWith(line, <<"i", "m", "p", "o", "r", "t", " ">>) /\ found > -1
        THEN [result |-> Result(found,
                 <<"E", "4", "0", "1", " ", "multiple imports on one line">>),
              state |-> self.state]
        ELSE [result |-> None, state |-> self.state]

\* get_indent(line): the indentation with tabs expanded to the next
\* multiple of 8.
RECURSIVE GetIndentFrom(_, _, _)
GetIndentFrom(line, i, result) ==
    IF At(line, i) = "\t"
    THEN GetIndentFrom(line, i + 1, (result \div 8) * 8 + 8)
    ELSE IF At(line, i) = " " THEN GetIndentFrom(line, i + 1, result + 1)
    ELSE result

get_indent(line) == GetIndentFrom(line, 0, 0)

\* ------------------------------------------------------------------------
\* The registry of checks
\* ------------------------------------------------------------------------

\* The check functions among the module's globals: the name, the argument
\* names inspect.getargspec gives, and the name spelled out for sorting.
GlobalChecks ==
    { [name |-> "tabs_or_spaces",
       args |-> <<"physical_line", "state">>,
       chars |-> <<"t", "a", "b", "s", "_", "o", "r", "_", "s", "p", "a",
                  "c", "e", "s">>],
      [name |-> "tabs_obsolete",
       args |-> <<"physical_line">>,
       chars |-> <<"t", "a", "b", "s", "_", "o", "b", "s", "o", "l", "e",
                  "t", "e">>],
      [name |-> "trailing_whitespace",
       args |-> <<"physical_line">>,
       chars |-> <<"t", "r", "a", "i", "l", "i", "n", "g", "_", "w", "h",
                  "i", "t", "e", "s", "p", "a", "c", "e">>],
      [name |-> "maximum_line_length",
       args |-> <<"physical_line">>,
       chars |-> <<"m", "a", "x", "i", "m", "u", "m", "_", "l", "i", "n",
                  "e", "_", "l", "e", "n", "g", "t", "h">>],
      [name |-> "indentation",
       args |-> <<"logical_line", "state", "indent_level">>,
       chars |-> <<"i", "n", "d", "e", "n", "t", "a", "t", "i", "o", "n">>],
      [name |-> "blank_lines",
       args |-> <<"logical_line", "state", "indent_level">>,
       chars |-> <<"b", "l", "a", "n", "k", "_", "l", "i", "n", "e", "s">>],
      [name |-> "extraneous_whitespace",
       args |-> <<"logical_line">>,
       chars |-> <<"e", "x", "t", "r", "a", "n", "e", "o", "u", "s", "_",
                  "w", "h", "i", "t", "e", "s", "p", "a", "c", "e">>],
      [name |-> "whitespace_before_parameters",
       args |-> <<"logical_line">>,
       chars |-> <<"w", "h", "i", "t", "e", "s", "p", "a", "c", "e", "_",
                  "b", "e", "f", "o", "r", "e", "_", "p", "a", "r", "a",
                  "m", "e", "t", "e", "r", "s">>],
      [name |-> "whitespace_around_operator",
       args |-> <<"logical_line">>,
       chars |-> <<"w", "h", "i", "t", "e", "s", "p", "a", "c", "e", "_",
                  "a", "r", "o", "u", "n", "d", "_", "o", "p", "e", "r",
                  "a", "t", "o", "r">>],
      [name |-> "imports_on_separate_lines",
       args |-> <<"logical_line">>,
       chars |-> <<"i", "m", "p", "o", "r", "t", "s", "_", "o", "n", "_",
                  "s", "e", "p", "a", "r", "a", "t", "e", "_", "l", "i",
                  "n", "e", "s">>] }

\* Check functions a user adds to the module ("You can add checks to this
\* program simply by adding a new check function"); these two ask for an
\* argument that is no attribute of the Checker.
ExtraChecks ==
    { [name |-> "zz_user_physical",
       args |-> <<"physical_line", "no_such_attribute">>,
       chars |-> <<"z", "z", "_", "u", "s", "e", "r", "_", "p", "h", "y",
                  "s", "i", "c", "a", "l">>],
      [name |-> "user_logical",
       args |-> <<"logical_line", "no_such_attribute">>,
       chars |-> <<"u", "s", "e", "r", "_", "l", "o", "g", "i", "c", "a",
                  "l">>] }

\* Rank of a character of a function name in ASCII order ('_' < 'a').
CharRank(c) ==
    CHOOSE i \in 1..27 :
        <<"_", "a", "b", "c", "d", "e", "f", "g", "h", "i", "j", "k", "l",
          "m", "n", "o", "p", "q", "r", "s", "t", "u", "v", "w", "x", "y",
          "z">>[i] = c

\* a < b for two names, as Python compares strings.
RECURSIVE NameLess(_, _)
NameLess(a, b) ==
    IF b = <<>> THEN FALSE
    ELSE IF a = <<>> THEN TRUE
    ELSE IF Head(a) # Head(b) THEN CharRank(Head(a)) < CharRank(Head(b))
    ELSE NameLess(Tail(a), Tail(b))

\* checks.sort(): the checks of a set in the order of their names.
RECURSIVE SortChecks(_)
SortChecks(S) ==
    IF S = {} THEN <<>>
    ELSE LET least == CHOOSE c \in S :
                        \A d \in S \ {c} : NameLess(c.chars, d.chars)
         IN  <<least>> \o SortChecks(S \ {least})

\* find_checks(argument_name) over the functions in globals.  The code
\* tests args[0].startswith(argument_name); no first argument name here
\* is a proper extension of 'physical_line' or 'logical_line', so the
\* test is equality.
find_checks(globals, argument_name) ==
    SortChecks({c \in globals :
                  Len(c.args) >= 1 /\ c.args[1] = argument_name})

\* check(*arguments): the call of the named check function.
CallCheck(name, self) ==
    CASE name = "tabs_or_spaces" -> tabs_or_spaces(self)
      [] name = "tabs_obsolete" -> tabs_obsolete(self)
      [] name = "trailing_whitespace" -> trailing_whitespace(self)
      [] name = "maximum_line_length" -> maximum_line_length(self)
      [] name = "indentation" -> indentation(self)
      [] name = "blank_lines" -> blank_lines(self)
      [] name = "extraneous_whitespace" -> extraneous_whitespace(self)
      [] name = "whitespace_before_parameters" ->
             whitespace_before_parameters(self)
      [] name = "whitespace_around_operator" ->
             whitespace_around_operator(self)
      [] name = "imports_on_separate_lines" ->
             imports_on_separate_lines(self)
      [] OTHER -> [result |-> None, state |-> self.state]

\* ------------------------------------------------------------------------
\* mute_line and the logical line
\* ------------------------------------------------------------------------

\* The body of mute_line's loop for one token.
MuteToken(line, line_number, t) ==
    IF ~(t.start[1] <= line_number /\ line_number <= t.end[1]) THEN line
    ELSE IF t.type = "COMMENT"
    THEN RStrip(Slice(line, 0, t.start[2]))
    ELSE IF t.type = "STRING"
    THEN LET tripled == \/ StartsWith(t.string, <<"\"", "\"", "\"">>)
                        \/ StartsWith(t.string, <<"'", "'", "'">>)
             start0 == t.start[2] + 1 + (IF tripled THEN 2 ELSE 0)
             end0 == t.end[2] - 1 - (IF tripled THEN 2 ELSE 0)
             string_start == IF line_number > t.start[1] THEN 0 ELSE start0
             string_end == IF line_number < t.end[1] THEN Len(line) ELSE end0
         IN  Slice(line, 0, string_start)
               \o Fill(string_end - string_start)
               \o SliceFrom(line, string_end)
    ELSE line

RECURSIVE MuteFrom(_, _, _, _)
MuteFrom(line, line_number, toks, i) ==
    IF i > Len(toks) THEN line
    ELSE MuteFrom(MuteToken(line, line_number, toks[i]), line_number, toks, i + 1)

mute_line(line, line_number, toks) == MuteFrom(line, line_number, toks, 1)

\* The first loop of check_logical, from physical line line_number to
\* line last: the mapping, a list of (offset in the logical line, line
\* number, indent), and the logical line.
RECURSIVE BuildLogical(_, _, _, _, _, _)
BuildLogical(lines, toks, line_number, last, mapping, logical) ==
    IF line_number > last THEN [mapping |-> mapping, logical |-> logical]
    ELSE LET muted == mute_line(RStrip(lines[line_number]), line_number, toks)
             stripped == LStrip(muted)
             indent == Len(muted) - Len(stripped)
             line == IF EndsWith(stripped, <<"\\">>)
                     THEN Slice(stripped, 0, -1) ELSE stripped
             joined == IF EndsWith(logical, <<",">>)
                       THEN logical \o <<" ">> ELSE logical
         IN  IF muted = <<>>
             THEN BuildLogical(lines, toks, line_number + 1, last,
                               mapping, logical)
             ELSE BuildLogical(lines, toks, line_number + 1, last,
                               Append(mapping, <<Len(joined), line_number, indent>>),
                               joined \o line)

\* The loop of check_logical over the mapping for one result offset.
\* orig is (original_number, original_indent, original_offset) as the
\* three variables stand before the loop; <<>> while they are unbound.
RECURSIVE MapOffset(_, _, _, _)
MapOffset(mapping, i, offset, orig) ==
    IF i > Len(mapping) THEN orig
    ELSE MapOffset(mapping, i + 1, offset,
           IF offset >= mapping[i][1]
           THEN <<mapping[i][2], mapping[i][3], offset - mapping[i][1]>>
           ELSE orig)

\* ------------------------------------------------------------------------
\* report_error
\* ------------------------------------------------------------------------

\* An output line: message(text).
Msg(kind, file, line, col, text) ==
    [kind |-> kind, file |-> file, line |-> line, col |-> col, text |-> text]

\* The empty dict of error counts.
NoCounts == [k \in {} |-> 0]

\* counts.get(key, 0)
CountOf(counts, key) == IF key \in DOMAIN counts THEN counts[key] ELSE 0

\* text.rfind(ch) from column i down: the last column holding the piece
\* ch, or -1.
RFind(text, ch, i) ==
    LET hits == {k \in 0..i : At(text, k) = ch}
    IN  IF hits = {} THEN -1 ELSE Greatest(hits)

\* ignore_code(code) with options.ignore = ignore.
ignore_code(ignore, code) ==
    \E i \in 1..Len(ignore) : StartsWith(code, ignore[i])

\* The key report_error counts a text under: count_text.
CountText(text) ==
    LET found == RFind(text, "(", Len(text) - 1)
    IN  IF EndsWith(text, <<")">>) /\ found > -1
        THEN RStrip(Slice(text, 0, found))
        ELSE text

\* report_error(line_number, offset, text, check) of the Checker env, on
\* the running values ctx; call describes the call for the record kept
\* of it.  options.testsuite is not set in the modelled runs.
report_error(env, ctx, line_number, offset, text, check, call) ==
    LET first == IF env.options.quiet = 1 /\ ctx.error_count = NoCounts
                 THEN <<Msg("filename", env.filename, 0, 0, <<>>)>>
                 ELSE <<>>
        code == Slice(text, 0, 4)
        count_text == CountText(text)
        counts == (count_text :> (CountOf(ctx.error_count, count_text) + 1))
                    @@ ctx.error_count
        finding == <<Msg("finding", env.filename, line_number, offset + 1, text)>>
        source == IF env.options.show_source
                  THEN <<Msg("source", env.filename, line_number, 0,
                             env.lines[line_number]),
                         Msg("caret", env.filename, line_number, offset, <<"^">>)>>
                  ELSE <<>>
        pep8 == IF env.options.show_pep8
                THEN <<Msg("pep8", env.filename, line_number, 0, <<check>>)>>
                ELSE <<>>
        rest == IF env.options.quiet # 0 THEN <<>>
                ELSE IF ignore_code(env.options.ignore, code) THEN <<>>
                ELSE finding \o source \o pep8
    IN  [ctx EXCEPT
           !.error_count = counts,
           !.output = @ \o first \o rest,
           !.reports = Append(@,
               [origin |-> call.origin, check |-> check,
                line_number |-> line_number, offset |-> offset,
                text |-> text, key |-> count_text,
                logical_offset |-> call.logical_offset,
                mapping |-> call.mapping,
                emitted |-> first \o rest])]

\* ------------------------------------------------------------------------
\* run_check, check_physical and check_logical.
\* env holds what the Checker reads (options, filename, lines, the set of
\* attributes set so far, the line being checked); ctx holds what the
\* checks and report_error change (state, error_count, the output), the
\* record of the report_error calls, the number of check functions
\* called, and exc, the exception raised ("" for none).
\* ------------------------------------------------------------------------

\* The elements of a list.
Range(seq) == {seq[i] : i \in 1..Len(seq)}

\* run_check(check, argument_names): getattr raises AttributeError for a
\* name that is no attribute of the Checker; else the check is called.
run_check(env, ctx, check, self) ==
    IF ~(Range(check.args) \subseteq env.attrs)
    THEN [exc |-> "AttributeError", result |-> None, state |-> ctx.state]
    ELSE [exc |-> ""] @@ CallCheck(check.name, self)

RECURSIVE PhysicalLoop(_, _, _, _)
\* The body of check_physical's loop for the i-th physical check, r being
\* what run_check gave for it.
PhysicalStep(env, checks, i, ctx, r) ==
    IF r.exc # "" THEN [ctx EXCEPT !.exc = r.exc]
    ELSE IF r.result = None
    THEN PhysicalLoop(env, checks, i + 1,
           [ctx EXCEPT !.state = r.state, !.checks_run = @ + 1])
    ELSE PhysicalLoop(env, checks, i + 1,
           report_error(env,
                        [ctx EXCEPT !.state = r.state, !.checks_run = @ + 1],
                        env.line_number, r.result[1], r.result[2],
                        checks[i].name,
                        [origin |-> "physical",
                         logical_offset |-> r.result[1],
                         mapping |-> <<>>]))

\* The loop of check_physical from the i-th physical check on.
PhysicalLoop(env, checks, i, ctx) ==
    IF i > Len(checks) \/ ctx.exc # "" THEN ctx
    ELSE PhysicalStep(env, checks, i, ctx,
           run_check(env, ctx, checks[i],
                     [physical_line |-> env.physical_line,
                      logical_line |-> <<>>, indent_level |-> 0,
                      state |-> ctx.state]))

check_physical(env, checks, ctx) == PhysicalLoop(env, checks, 1, ctx)

RECURSIVE LogicalLoop(_, _, _, _, _, _)
\* The body of check_logical's loop over the checks for the i-th logical
\* check, r being what run_check gave for it and mapped the values of
\* (original_number, original_indent, original_offset) after the loop
\* over the mapping.
LogicalStep(env, checks, i, built, ctx, r, mapped) ==
    IF r.exc # "" THEN [ctx EXCEPT !.exc = r.exc]
    ELSE IF r.result = None
    THEN LogicalLoop(env, checks, i + 1, built, mapped,
           [ctx EXCEPT !.state = r.state, !.checks_run = @ + 1])
    ELSE IF mapped = <<>>
    THEN [ctx EXCEPT !.state = r.state, !.checks_run = @ + 1,
                     !.exc = "UnboundLocalError"]
    ELSE LogicalLoop(env, checks, i + 1, built, mapped,
           report_error(env,
                        [ctx EXCEPT !.state = r.state, !.checks_run = @ + 1],
                        mapped[1], mapped[3], r.result[2], checks[i].name,
                        [origin |-> "logical",
                         logical_offset |-> r.result[1],
                         mapping |-> built.mapping]))

\* The result of the i-th logical check and the mapping of its offset.
LogicalMapped(env, checks, i, built, orig, ctx, r) ==
    LogicalStep(env, checks, i, built, ctx, r,
                IF r.exc # "" \/ r.result = None THEN orig
                ELSE MapOffset(built.mapping, 1, r.result[1], orig))

\* The loop of check_logical over the logical checks, from the i-th on.
\* orig is (original_number, original_indent, original_offset), which
\* keep their values from one check to the next.
LogicalLoop(env, checks, i, built, orig, ctx) ==
    IF i > Len(checks) \/ ctx.exc # "" THEN ctx
    ELSE LogicalMapped(env, checks, i, built, orig, ctx,
           run_check(env, ctx, checks[i],
                     [physical_line |-> env.physical_line,
                      logical_line |-> built.logical,
                      indent_level |-> built.mapping[1][3],
                      state |-> ctx.state]))

\* check_logical after its first loop has built the mapping and the
\* logical line: mapping[0] raises IndexError when no physical line of
\* the range contributes.
LogicalChecks(env, checks, built, ctx) ==
    IF built.mapping = <<>> THEN [ctx EXCEPT !.exc = "IndexError"]
    ELSE LogicalLoop(env, checks, 1, built, <<>>, ctx)

\* check_logical(start, end, tokens)
check_logical(env, checks, start, end, toks, ctx) ==
    LogicalChecks(env, checks,
                  BuildLogical(env.lines, toks, start[1], end[1], <<>>, <<>>),
                  ctx)

\* add_error_count(error_count, file_errors)
add_error_count(error_count, file_errors) ==
    [code \in DOMAIN error_count \cup DOMAIN file_errors |->
        CountOf(error_count, code) + CountOf(file_errors, code)]

\* ------------------------------------------------------------------------
\* The source files of the modelled runs.  Each is a list of physical
\* lines, as Checker.__init__ reads them with readlines().
\* ------------------------------------------------------------------------

\* def f():\n |     pass\n | def g():\n |     pass  \n | \n | \n | def h():\n
FileDefs ==
    <<<<"d", "e", "f", " ", "f", "(", ")", ":", "\n">>,
      <<" ", " ", " ", " ", "p", "a", "s", "s", "\n">>,
      <<"d", "e", "f", " ", "g", "(", ")", ":", "\n">>,
      <<" ", " ", " ", " ", "p", "a", "s", "s", " ", " ", "\n">>,
      <<"\n">>,
      <<"\n">>,
      <<"d", "e", "f", " ", "h", "(", ")", ":", "\n">>>>

\* if x:\n | \ty = (x,\n | \t    f( r"ab"))\n | z = """a\n |   b"""\n
FileJoin ==
    <<<<"i", "f", " ", "x", ":", "\n">>,
      <<"\t", "y", " ", "=", " ", "(", "x", ",", "\n">>,
      <<"\t", " ", " ", " ", " ", "f", "(", " ", "r", "\"", "a", "b", "\"", ")", ")", "\n">>,
      <<"z", " ", "=", " ", "\"", "\"", "\"", "a", "\n">>,
      <<" ", " ", "b", "\"", "\"", "\"", "\n">>>>

\* )\n | x = (y \n | z = (\n
FileBad ==
    <<<<")", "\n">>,
      <<"x", " ", "=", " ", "(", "y", " ", "\n">>,
      <<"z", " ", "=", " ", "(", "\n">>>>

\*   \\\n | \n | def f():\n | def g():\n |   # c\n | import os, re  # c\n | 80 x | 82 x
FileMisc ==
    <<<<" ", " ", "\\", "\n">>,
      <<"\n">>,
      <<"d", "e", "f", " ", "f", "(", ")", ":", "\n">>,
      <<"d", "e", "f", " ", "g", "(", ")", ":", "\n">>,
      <<" ", " ", "#", " ", "c", "\n">>,
      <<"i", "m", "p", "o", "r", "t", " ", "o", "s", ",", " ", "r", "e", " ", " ", "#", " ", "c", "\n">>,
      [i \in 1..81 |-> IF i = 81 THEN "\n" ELSE "x"],
      [i \in 1..83 |-> IF i = 83 THEN "\n" ELSE "x"]>>

\* The files a directory can hold, in the order of their names; a file is
\* named by its place in this list.
FilePool == <<FileDefs, FileBad, FileJoin, FileMisc>>

\* The greatest number of files in the directory of one run.
MaxFiles == 2

\* The directories of the modelled runs: 1..MaxFiles files of the pool,
\* as input_dir visits them after files.sort().
Batches ==
    {b \in UNION {[1..n -> 1..Len(FilePool)] : n \in 1..MaxFiles} :
        \A i \in 1..(Len(b) - 1) : b[i] < b[i + 1]}

\* The values of --ignore of the modelled runs, after split(',').
IgnoreLists == {<<>>, <<<<"E", "3">>, <<"W">>>>}

\* The option values of the modelled runs: -q given 0, 1 or 2 times,
\* --ignore, --show-source and --show-pep8; --verbose, --statistics,
\* --testsuite and --doctest are not given.
OptionValues ==
    [quiet : 0..2, ignore : IgnoreLists,
     show_source : BOOLEAN, show_pep8 : BOOLEAN]

\* ------------------------------------------------------------------------
\* The state of a run
\* ------------------------------------------------------------------------

VARIABLES
    options,          \* the global options
    globals,          \* the check functions among the module's globals
    files,            \* the names of the directory's files, in sorted order
    pc,               \* "main", "check_all", "done" or "crashed"
    exception,        \* the exception that ended the run, "" for none
    file_index,       \* input_dir: the file being or next to be checked
    total,            \* input_dir: error_count
    physical_checks,  \* Checker.physical_checks
    logical_checks,   \* Checker.logical_checks
    attrs,            \* the names of the attributes set on the Checker
    line_number,      \* Checker.line_number
    error_count,      \* Checker.error_count
    state,            \* Checker.state
    start,            \* check_all: start, <<>> for None
    tokens,           \* check_all: tokens
    parens,           \* check_all: parens
    tok_state,        \* the token generator's variables
    pending,          \* tokens of the line read that are not yet yielded
    gen_status,       \* "more", "end" or "error": see TokenizeLine
    output,           \* the lines printed by message()
    reports,          \* history: the report_error calls for this file
    checks_run,       \* history: check functions called in this run
    last_logical,     \* history: the last check_logical call
    logical_calls,    \* history: check_logical calls for this file
    log               \* history: the events of this file, in order

vars ==
    <<options, globals, files, pc, exception, file_index, total,
      physical_checks, logical_checks, attrs, line_number, error_count,
      state, start, tokens, parens, tok_state, pending, gen_status, output,
      reports, checks_run, last_logical, logical_calls, log>>

\* Checker.lines of the file being checked.
lines == FilePool[files[file_index]]

\* An event of the log.
Event(ev, row, last, type, string) ==
    [ev |-> ev, row |-> row, last |-> last, type |-> type, string |-> string]

NoLogical ==
    [start |-> <<0, 0>>, end |-> <<0, 0>>, toks |-> <<>>, mapping |-> <<>>,
     logical |-> <<>>, indent_level |-> 0, muted |-> <<>>, report_from |-> 0]

Init ==
    /\ options \in OptionValues
    /\ globals \in {GlobalChecks} \cup {GlobalChecks \cup {c} : c \in ExtraChecks}
    /\ files \in Batches
    /\ pc = "main"
    /\ exception = ""
    /\ file_index = 1
    /\ total = NoCounts
    /\ physical_checks = <<>>
    /\ logical_checks = <<>>
    /\ attrs = {}
    /\ line_number = 0
    /\ error_count = NoCounts
    /\ state = EmptyState
    /\ start = <<>>
    /\ tokens = <<>>
    /\ parens = 0
    /\ tok_state = TokInit
    /\ pending = <<>>
    /\ gen_status = "more"
    /\ output = <<>>
    /\ reports = <<>>
    /\ checks_run = 0
    /\ last_logical = NoLogical
    /\ logical_calls = 0
    /\ log = <<>>

\* What the Checker reads while it checks a line.
Env(physical_line, number, attributes) ==
    [options |-> options, filename |-> files[file_index], lines |-> lines,
     attrs |-> attributes, physical_line |-> physical_line,
     line_number |-> number]

\* What the checks and report_error change.
Ctx ==
    [state |-> state, error_count |-> error_count, output |-> output,
     reports |-> reports, checks_run |-> checks_run, exc |-> ""]

\* A check_all that keeps the state dict the Checker before it ended with.
\* C12 is about the difference between this and FreshState.
KeptState(previous) == previous

\* self.state = {} of check_all: the state dict a file starts with,
\* whatever the one of the file before it ended as.
FreshState(previous) == EmptyState

\* input_dir's loop body up to the loop of check_all: input_file builds a
\* Checker (readlines, find_checks) and check_all sets its variables.
InputFile ==
    /\ pc = "main"
    /\ file_index <= Len(files)
    /\ physical_checks' = find_checks(globals, "physical_line")
    /\ logical_checks' = find_checks(globals, "logical_line")
    /\ attrs' = {"filename", "lines", "physical_checks", "logical_checks",
                 "line_number", "error_count", "state"}
    /\ line_number' = 0
    /\ error_count' = NoCounts
    /\ state' = FreshState(state)
    /\ start' = <<>>
    /\ tokens' = <<>>
    /\ parens' = 0
    /\ tok_state' = TokInit
    /\ pending' = <<>>
    /\ gen_status' = "more"
    /\ reports' = <<>>
    /\ last_logical' = NoLogical
    /\ logical_calls' = 0
    /\ log' = <<>>
    /\ pc' = "check_all"
    /\ UNCHANGED <<options, globals, files, exception, file_index, total,
                   output, checks_run>>

\* A readline that returns the line before the one line_number names.
\* C11 is about the difference between this and readline.
readline_previous(ls, number) ==
    IF number > Len(ls) THEN <<>> ELSE ls[Max(number - 1, 1)]

\* Checker.readline once line_number has been incremented to number: the
\* line of that number, the empty string past the last line.
readline(ls, number) == IF number > Len(ls) THEN <<>> ELSE ls[number]

\* The token generator asks for a line: readline_check_physical reads it
\* (the empty string past the last line) and runs the physical checks on
\* it; the generator then tokenizes the line.  An exception raised by
\* either is not caught by check_all, input_file, input_dir or _main.
ReadLine ==
    /\ pc = "check_all"
    /\ pending = <<>>
    /\ gen_status = "more"
    /\ \E number \in {line_number + 1} :
       \E line \in {readline(lines, number)} :
       \E attributes \in {attrs \cup {"physical_line"}} :
       \E ctx \in {check_physical(Env(line, number, attributes),
                                  physical_checks, Ctx)} :
       \E r \in {TokenizeLine(line, number, tok_state)} :
           /\ line_number' = number
           /\ attrs' = attributes
           /\ state' = ctx.state
           /\ error_count' = ctx.error_count
           /\ output' = ctx.output
           /\ reports' = ctx.reports
           /\ checks_run' = ctx.checks_run
           /\ log' = Append(log, Event("physical", number, number, "", line))
           /\ IF ctx.exc # ""
              THEN /\ pc' = "crashed"
                   /\ exception' = ctx.exc
                   /\ UNCHANGED <<tok_state, pending, gen_status>>
              ELSE /\ tok_state' = r.st
                   /\ pending' = r.toks
                   /\ gen_status' = r.status
                   /\ pc' = IF r.status = "error" THEN "crashed" ELSE pc
                   /\ exception' = IF r.status = "error" THEN "TokenError"
                                   ELSE exception
    /\ UNCHANGED <<options, globals, files, file_index, total,
                   physical_checks, logical_checks, start, tokens, parens,
                   last_logical, logical_calls>>

\* parens after the two "if token_type == tokenize.OP" of check_all.
ParensAfter(token, depth) ==
    LET opened == IF token.type = "OP" /\ Contains(<<"(", "[", "{">>, token.string)
                  THEN depth + 1 ELSE depth
    IN  IF token.type = "OP" /\ Contains(<<"}", "]", ")">>, token.string)
        THEN opened - 1 ELSE opened

\* A statement boundary that disregards the bracket depth: every NEWLINE
\* token.  C4 is about the difference between this and EndsStatement.
EndsStatementAny(token, depth) == token.type = "NEWLINE"

\* The condition under which check_all calls check_logical:
\* token_type == tokenize.NEWLINE and not parens.
EndsStatement(token, depth) == token.type = "NEWLINE" /\ depth = 0

\* The body of check_all's loop for the next token the generator yields.
NextToken ==
    /\ pc = "check_all"
    /\ pending # <<>>
    /\ \E token \in {Head(pending)} :
       \E toks \in {Append(tokens, token)} :
       \E first \in {IF start = <<>> THEN token.start ELSE start} :
       \E depth \in {ParensAfter(token, parens)} :
       \E seen \in {Append(log, Event("token", token.start[1], token.end[1],
                                     token.type, token.string))} :
           /\ pending' = Tail(pending)
           /\ parens' = depth
           /\ IF EndsStatement(token, depth)
              THEN \E attributes \in {attrs \cup {"indent_level", "logical_line"}} :
                   \E built \in {BuildLogical(lines, toks, first[1],
                                              token.end[1], <<>>, <<>>)} :
                   \E ctx \in {check_logical(Env(<<>>, line_number, attributes),
                                             logical_checks, first, token.end,
                                             toks, Ctx)} :
                   /\ start' = <<>>
                   /\ tokens' = <<>>
                   /\ state' = ctx.state
                   /\ error_count' = ctx.error_count
                   /\ output' = ctx.output
                   /\ reports' = ctx.reports
                   /\ checks_run' = ctx.checks_run
                   /\ logical_calls' = logical_calls + 1
                   /\ last_logical' =
                        [start |-> first, end |-> token.end, toks |-> toks,
                         mapping |-> built.mapping, logical |-> built.logical,
                         indent_level |-> IF built.mapping = <<>> THEN 0
                                          ELSE built.mapping[1][3],
                         muted |-> [k \in 1..(token.end[1] - first[1] + 1) |->
                                      mute_line(RStrip(lines[first[1] + k - 1]),
                                                first[1] + k - 1, toks)],
                         report_from |-> Len(reports)]
                   /\ log' = Append(seen, Event("logical", first[1],
                                                token.end[1], "", built.logical))
                   /\ attrs' = IF built.mapping = <<>> THEN attrs ELSE attributes
                   /\ pc' = IF ctx.exc # "" THEN "crashed" ELSE pc
                   /\ exception' = ctx.exc
              ELSE /\ start' = first
                   /\ tokens' = toks
                   /\ log' = seen
                   /\ UNCHANGED <<state, error_count, output, reports,
                                  checks_run, logical_calls, last_logical,
                                  attrs, pc, exception>>
    /\ UNCHANGED <<options, globals, files, file_index, total,
                   physical_checks, logical_checks, line_number, tok_state,
                   gen_status>>

\* The generator is exhausted: check_all returns error_count, input_file
\* returns it and input_dir adds it to its own.
FinishFile ==
    /\ pc = "check_all"
    /\ pending = <<>>
    /\ gen_status = "end"
    /\ total' = add_error_count(total, error_count)
    /\ file_index' = file_index + 1
    /\ pc' = "main"
    /\ UNCHANGED <<options, globals, files, exception, physical_checks,
                   logical_checks, attrs, line_number, error_count, state,
                   start, tokens, parens, tok_state, pending, gen_status,
                   output, reports, checks_run, last_logical, logical_calls,
                   log>>

\* The last file is done: input_dir and _main return.
Finish ==
    /\ pc = "main"
    /\ file_index > Len(files)
    /\ pc' = "done"
    /\ UNCHANGED <<options, globals, files, exception, file_index, total,
                   physical_checks, logical_checks, attrs, line_number,
                   error_count, state, start, tokens, parens, tok_state,
                   pending, gen_status, output, reports, checks_run,
                   last_logical, logical_calls, log>>

Next == InputFile \/ ReadLine \/ NextToken \/ FinishFile \/ Finish

Spec == Init /\ [][Next]_vars

\* ------------------------------------------------------------------------
\* Properties.  reports holds the report_error calls of the file being
\* checked, last_logical the last check_logical call and log the events
\* of the file; lines is read only while a file is open.
\* ------------------------------------------------------------------------

\* A file is open: check_all is running or an exception has ended it.
InFile == pc \in {"check_all", "crashed"}

\* The code of a finding: text[:4].
CodeOf(text) == Slice(text, 0, 4)

\* The number of leading blanks and tabs of a physical line.
LeadingWidth(line) ==
    Cardinality({c \in 0..(Len(line) - 1) :
                   \A b \in 0..c : At(line, b) \in {" ", "\t"}})

\* The reports made by the last check_logical call.
LastReports == (last_logical.report_from + 1)..Len(reports)

\* The entry of a mapping with the greatest start offset <= offset (the
\* last of them when two start at the same offset).
Segment(mapping, offset) ==
    mapping[Greatest({i \in 1..Len(mapping) : mapping[i][1] <= offset})]

\* C1: a result (offset, text) of a logical-line check is reported at the
\* physical line of the segment with the greatest start offset <= offset,
\* at column offset - segment start + the indent recorded for that line.
C1_ColumnAddsIndent ==
    \A i \in 1..Len(reports) :
        reports[i].origin = "logical" =>
            \E seg \in {Segment(reports[i].mapping, reports[i].logical_offset)} :
                /\ reports[i].line_number = seg[2]
                /\ reports[i].offset = reports[i].logical_offset - seg[1] + seg[3]

\* C2: a report_error call whose code matches the ignore list emits no
\* output of any kind, whatever quiet, show_source and show_pep8 are.
C2_IgnoredFindingIsSilent ==
    \A i \in 1..Len(reports) :
        ignore_code(options.ignore, CodeOf(reports[i].text)) =>
            reports[i].emitted = <<>>

\* C3: when the tokenizer fails on a file, the failure stays with that
\* file: the run is not ended by it and a finding of its own kind is
\* printed for the file.
C3_TokenizeFailureScopedToFile ==
    gen_status = "error" =>
        /\ pc # "crashed"
        /\ \E k \in 1..Len(output) :
               /\ output[k].kind = "tokenize error"
               /\ output[k].file = files[file_index]

\* The last "logical" event among the first n events of the log, 0 for
\* none: where the statement that event n belongs to began.
StatementStart(n) ==
    Greatest({0} \cup {j \in 1..n : log[j].ev = "logical"})

\* The bracket operators with the given strings among events a..b.
Brackets(a, b, strings) ==
    Cardinality({j \in a..b : /\ log[j].ev = "token"
                              /\ log[j].type = "OP"
                              /\ log[j].string \in strings})

\* The bracket depth at event n: '(', '[', '{' minus ')', ']', '}' since
\* the statement began.
DepthSince(n) ==
    Brackets(StatementStart(n) + 1, n, {<<"(">>, <<"[">>, <<"{">>})
      - Brackets(StatementStart(n) + 1, n, {<<")">>, <<"]">>, <<"}">>})

\* The physical line a statement begins on: the row of its first token
\* that is neither a comment nor a non-logical newline.
FirstRow(toks) ==
    toks[Least({i \in 1..Len(toks) : toks[i].type \notin {"COMMENT", "NL"}})].start[1]

BlankBefore(ls, row) ==
    row - 1 - Greatest({0} \cup {r \in 1..(row - 1) : RStrip(ls[r]) # <<>>})

\* C5: the first logical line of a file never yields E301 or E302, and a
\* later top-level logical line starting with 'def ' yields E302 exactly
\* when the number of blank physical lines just before it is not 2, the
\* count in the message being that number.
C5_BlankLinesBeforeDef ==
    (InFile /\ logical_calls > 0 /\ last_logical.mapping # <<>>) =>
        /\ logical_calls = 1 =>
               \A i \in LastReports :
                   CodeOf(reports[i].text) \notin
                       {<<"E", "3", "0", "1">>, <<"E", "3", "0", "2">>}
        /\ (/\ logical_calls > 1
            /\ last_logical.indent_level = 0
            /\ StartsWith(last_logical.logical, <<"d", "e", "f", " ">>)) =>
               \E blank \in {BlankBefore(lines, last_logical.mapping[1][2])} :
               \E found \in {{i \in LastReports :
                                CodeOf(reports[i].text) = <<"E", "3", "0", "2">>}} :
                   /\ (found # {}) <=> (blank # 2)
                   /\ \A i \in found :
                          reports[i].text =
                              <<"E", "3", "0", "2", " ",
                                "expected 2 blank lines, found", " ">>
                                \o Digits(blank)

\* C6: a check function with an argument name that is no attribute of the
\* Checker fails at startup: when the AttributeError is raised no check
\* function has been called and nothing has been printed.
C6_UnresolvableNameFailsAtStartup ==
    exception = "AttributeError" => (checks_run = 0 /\ output = <<>>)

\* The sum of the counts of an error_count dict.
RECURSIVE SumCounts(_)
SumCounts(counts) ==
    IF DOMAIN counts = {} THEN 0
    ELSE \* any key: the sum does not depend on the order
         LET key == CHOOSE k \in DOMAIN counts : TRUE
         IN  counts[key]
               + SumCounts([k \in DOMAIN counts \ {key} |-> counts[k]])

\* C7: error_count counts the findings whose code is not ignored: the sum
\* of its counts is the number of report_error calls with such a code.
C7_CountsOnlyUnignored ==
    SumCounts(error_count) =
        Cardinality({i \in 1..Len(reports) :
                       ~ignore_code(options.ignore, CodeOf(reports[i].text))})

\* A message without the digits of the numbers it reports (the code, its
\* first four characters, is kept).
IsNoDigit(piece) ==
    piece \notin {"0", "1", "2", "3", "4", "5", "6", "7", "8", "9"}

StripNumbers(text) == CodeOf(text) \o SelectSeq(SliceFrom(text, 4), IsNoDigit)

\* C8: two findings whose messages differ only in the number they report
\* are counted under one and the same key.
C8_OneKeyPerMessage ==
    \A i, j \in 1..Len(reports) :
        StripNumbers(reports[i].text) = StripNumbers(reports[j].text)
            => reports[i].key = reports[j].key

\* The tokens of the last logical line, of a type, that overlap a row.
TokensOn(row, type) ==
    {i \in 1..Len(last_logical.toks) :
        /\ last_logical.toks[i].type = type
        /\ last_logical.toks[i].start[1] <= row
        /\ row <= last_logical.toks[i].end[1]}

\* The number of characters of a string token before its first quote (its
\* prefix) and the length of its quotes (3 for a triple-quoted string).
QuoteAt(string) == Least({c \in 0..Len(string) : At(string, c) \in {"\"", "'", ""}})

QuoteLen(string) ==
    IF /\ At(string, QuoteAt(string) + 1) = At(string, QuoteAt(string))
       /\ At(string, QuoteAt(string) + 2) = At(string, QuoteAt(string))
       /\ Len(string) >= QuoteAt(string) + 6
    THEN 3 ELSE 1

\* The columns of a row that lie inside a string token t: after its
\* prefix and opening quotes, before its closing quotes.
Interior(t, row, length) ==
    {c \in 0..(length - 1) :
        /\ row = t.start[1] => c >= t.start[2] + QuoteAt(t.string) + QuoteLen(t.string)
        /\ row = t.end[1] => c < t.end[2] - QuoteLen(t.string)}

\* C9: on a line that no COMMENT token overlaps, mute_line keeps the
\* length of the line and changes no character outside the interiors of
\* the strings it fills.
C9_MutingKeepsOutsideOfStrings ==
    (InFile /\ logical_calls > 0) =>
        \A k \in 1..Len(last_logical.muted) :
            \E row \in {last_logical.start[1] + k - 1} :
            \E line \in {RStrip(lines[row])} :
                TokensOn(row, "COMMENT") = {} =>
                    /\ Len(last_logical.muted[k]) = Len(line)
                    /\ \A c \in 0..(Len(line) - 1) :
                           (\A i \in TokensOn(row, "STRING") :
                               c \notin Interior(last_logical.toks[i], row,
                                                 Len(line)))
                               => At(last_logical.muted[k], c) = At(line, c)

\* C10: indent_level is the indentation of the logical line's first
\* physical line with tabs expanded to the next multiple of 8, the value
\* of get_indent.
C10_IndentLevelExpandsTabs ==
    (InFile /\ logical_calls > 0 /\ last_logical.mapping # <<>>) =>
        last_logical.indent_level =
            get_indent(lines[last_logical.mapping[1][2]])

\* The events of the log at which the physical checks ran on a line.
PhysicalEvents == {n \in 1..Len(log) : log[n].ev = "physical"}

\* C11: the physical checks run once for each physical line, in ascending
\* order, on the line that line_number names (the k-th run is on line k,
\* and past the last line the one further run is on the empty string);
\* once the generator is exhausted every line has been checked; and for
\* every statement the physical checks of its lines, and of no later
\* line, have run before its logical checks.
C11_PhysicalThenLogical ==
    InFile =>
        /\ \A n \in PhysicalEvents :
               /\ log[n].row = Cardinality({m \in PhysicalEvents : m <= n})
               /\ log[n].row <= Len(lines) + 1
               /\ log[n].row <= Len(lines) => log[n].string = lines[log[n].row]
               /\ log[n].row > Len(lines) => log[n].string = <<>>
        /\ line_number = Cardinality(PhysicalEvents)
        /\ \A i, j \in 1..Len(reports) :
               (i < j /\ reports[i].origin = "physical"
                      /\ reports[j].origin = "physical")
                   => reports[i].line_number <= reports[j].line_number
        /\ \A i \in 1..Len(reports) :
               reports[i].origin = "physical"
                   => reports[i].line_number \in 1..Min(line_number, Len(lines))
        /\ gen_status = "end" =>
               {log[n].row : n \in PhysicalEvents} = 1..(Len(lines) + 1)
        /\ \A n \in 1..Len(log) :
               log[n].ev = "logical" =>
                   \A m \in PhysicalEvents :
                       /\ log[m].row <= log[n].last => m < n
                       /\ log[m].row > log[n].last => m > n

\* A file has been read to its end; one of its statements spans two
\* physical lines and further lines were checked after its logical line.
C11_Witness ==
    /\ InFile
    /\ gen_status = "end"
    /\ \E n \in 1..Len(log) :
           /\ log[n].ev = "logical"
           /\ log[n].row < log[n].last
           /\ \E m \in PhysicalEvents : m > n /\ log[m].row <= Len(lines)
    /\ \E i \in 1..Len(reports) : reports[i].origin = "physical"

\* ------------------------------------------------------------------------
\* check_all of one file on its own, as a function of the file, the
\* options and the checks alone: run is the record of the Checker's
\* attributes and check_all's variables, f the file and what is fixed
\* for it.
\* ------------------------------------------------------------------------

\* A new Checker at the start of the loop of check_all.
NewRun ==
    [line_number |-> 0, tok_state |-> TokInit, pending |-> <<>>,
     gen_status |-> "more", start |-> <<>>, tokens |-> <<>>, parens |-> 0,
     attrs |-> {"filename", "lines", "physical_checks", "logical_checks",
                "line_number", "error_count", "state"},
     ctx |-> [state |-> EmptyState, error_count |-> NoCounts,
              output |-> <<>>, reports |-> <<>>, checks_run |-> 0,
              exc |-> ""]]

\* What the Checker of file f reads while it checks a line.
EnvOf(f, physical_line, number, attributes) ==
    [options |-> f.options, filename |-> f.filename, lines |-> f.lines,
     attrs |-> attributes, physical_line |-> physical_line,
     line_number |-> number]

\* The run after readline_check_physical, ctx being what check_physical
\* left and r what the tokenizer made of the line.
AfterLine(run, number, ctx, r) ==
    IF ctx.exc # ""
    THEN [run EXCEPT !.line_number = number, !.ctx = ctx,
                     !.attrs = @ \cup {"physical_line"}]
    ELSE [run EXCEPT !.line_number = number,
                     !.attrs = @ \cup {"physical_line"},
                     !.tok_state = r.st, !.pending = r.toks,
                     !.gen_status = r.status,
                     !.ctx = IF r.status = "error"
                             THEN [ctx EXCEPT !.exc = "TokenError"]
                             ELSE ctx]

\* The generator reads the line of the given number.
ReadNumbered(f, run, number, line) ==
    AfterLine(run, number,
              check_physical(EnvOf(f, line, number,
                                   run.attrs \cup {"physical_line"}),
                             f.physical_checks, run.ctx),
              TokenizeLine(line, number, run.tok_state))

\* The body of check_all's loop for a token, toks being the tokens of the
\* statement so far, first its start and depth the value of parens.
AfterToken(f, run, token, toks, first, depth) ==
    IF EndsStatement(token, depth)
    THEN [run EXCEPT
            !.pending = Tail(@), !.parens = depth,
            !.start = <<>>, !.tokens = <<>>,
            !.attrs = @ \cup {"indent_level", "logical_line"},
            !.ctx = check_logical(
                      EnvOf(f, <<>>, run.line_number,
                            run.attrs \cup {"indent_level", "logical_line"}),
                      f.logical_checks, first, token.end, toks, run.ctx)]
    ELSE [run EXCEPT !.pending = Tail(@), !.parens = depth,
                     !.start = first, !.tokens = toks]

\* check_all from a run on: to the end of the file or to an exception.
RECURSIVE RunFile(_, _)
RunFile(f, run) ==
    IF run.ctx.exc # "" THEN run
    ELSE IF run.pending # <<>>
    THEN RunFile(f, AfterToken(f, run, Head(run.pending),
                               Append(run.tokens, Head(run.pending)),
                               IF run.start = <<>>
                               THEN Head(run.pending).start ELSE run.start,
                               ParensAfter(Head(run.pending), run.parens)))
    ELSE IF run.gen_status = "more"
    THEN RunFile(f, ReadNumbered(f, run, run.line_number + 1,
                                 readline(f.lines, run.line_number + 1)))
    ELSE run

\* The file being checked, checked by a Checker of its own.
Alone ==
    RunFile([options |-> options, filename |-> files[file_index],
             lines |-> lines,
             physical_checks |-> find_checks(globals, "physical_line"),
             logical_checks |-> find_checks(globals, "logical_line")],
            NewRun).ctx

\* check_all has come to the end of the file or an exception has ended it.
FileEnded ==
    \/ pc = "crashed"
    \/ pc = "check_all" /\ gen_status = "end" /\ pending = <<>>

\* C12: the state and the error counts belong to one file's run: the
\* findings in their order, what is printed for them and the counts of a
\* file are those of the file checked on its own, whatever files were
\* checked before it.
C12_FileResultsIndependent ==
    FileEnded =>
        \E alone \in {Alone} :
            /\ reports = alone.reports
            /\ error_count = alone.error_count
            /\ exception = alone.exc

\* The second file of a directory has been checked to its end with
\* findings, after a first file that had findings of its own.
C12_Witness ==
    /\ pc = "check_all"
    /\ gen_status = "end"
    /\ pending = <<>>
    /\ file_index > 1
    /\ reports # <<>>
    /\ total # NoCounts
    /\ state.keys # {}

====
